---- MODULE Spec2Model ----
EXTENDS Integers, Sequences, FiniteSets, TLC

(***************************************************************************)
(* The numeric type F: Float.  A value of F is modelled as a fixed-point   *)
(* number: the integer n stands for the real n / One.  Addition,           *)
(* subtraction, negation and comparison are exact; multiplication,         *)
(* division and the elementary functions round to the nearest unit.        *)
(***************************************************************************)
One == 1000000
Zero == 0
\* F::epsilon(): the gap the classification compares against, two units here so
\* that values strictly inside the band exist on both sides of 1.
Epsilon == 2
\* the square root of One: products and roots are computed by halves of this size
Half == 1000

FAdd(a, b) == a + b
FSub(a, b) == a - b
FNeg(a) == 0 - a
\* Float::max
FMax(a, b) == IF a > b THEN a ELSE b

\* a * b: the exact product a*b/One, rounded half up, computed by halves so
\* that no intermediate exceeds the integer range.
FMul(a, b) ==
    LET ah == a \div Half
        al == a % Half
        bh == b \div Half
        bl == b % Half
        t  == ah * bl + al * bh
        tq == t \div Half
        tr == t % Half
    IN  ah * bh + tq + ((tr * Half + al * bl + (One \div 2)) \div One)

\* long division: the decimal digits of r/b below the place k, and the remainder
RECURSIVE DivDigits(_, _, _)
DivDigits(r, b, k) ==
    IF k = 1 THEN [q |-> 0, r |-> r]
    ELSE LET d == (r * 10) \div b
             rest == DivDigits((r * 10) % b, b, k \div 10)
         IN  [q |-> d * (k \div 10) + rest.q, r |-> rest.r]

\* a / b: the exact quotient a*One/b by long division, rounded half up.
FDiv(a, b) ==
    LET n == IF b < 0 THEN 0 - a ELSE a
        m == IF b < 0 THEN 0 - b ELSE b
        f == DivDigits(n % m, m, One)
    IN  (n \div m) * One + f.q + (IF 2 * f.r >= m THEN 1 ELSE 0)

\* the largest integer in lo..hi whose square is at most x
RECURSIVE ISqrt(_, _, _)
ISqrt(x, lo, hi) ==
    IF lo >= hi THEN lo
    ELSE LET mid == (lo + hi + 1) \div 2
         IN  IF mid * mid <= x THEN ISqrt(x, mid, hi) ELSE ISqrt(x, lo, mid - 1)

\* the largest d in lo..hi with (Half*r + d)^2 <= One*(r*r + m)
RECURSIVE SqrtFrac(_, _, _, _)
SqrtFrac(r, m, lo, hi) ==
    IF lo >= hi THEN lo
    ELSE LET d == (lo + hi + 1) \div 2
             fits == 2 * r * d + ((d * d) \div Half)
                       + (IF (d * d) % Half > 0 THEN 1 ELSE 0) <= Half * m
         IN  IF fits THEN SqrtFrac(r, m, d, hi) ELSE SqrtFrac(r, m, lo, d - 1)

\* sqrt(x): the largest y with y*y <= x*One.
FSqrt(x) ==
    LET r == ISqrt(x, 0, 46340)
    IN  Half * r + SqrtFrac(r, x - r * r, 0, Half - 1)

\* a / n for a small positive integer n, rounded half up
RoundDiv(a, n) == (2 * a + n) \div (2 * n)

\* exp, cos and sin are summed from their power series, to this many terms
Terms == 24

\* term + the later terms of a power series in x, each obtained from the one
\* before: times x/(n+1) when step = 1, times sign*x*x/((n+1)(n+2)) when step = 2
RECURSIVE Series(_, _, _, _, _)
Series(x, term, n, step, sign) ==
    IF n > Terms \/ term = 0 THEN 0
    ELSE LET t1 == RoundDiv(FMul(term, x), n + 1)
             nx == IF step = 1 THEN t1 ELSE RoundDiv(FMul(t1, x), n + 2)
         IN  term + Series(x, sign * nx, n + step, step, sign)

FExp(x) == Series(x, One, 0, 1, 1)
FCos(x) == Series(x, One, 0, 2, -1)
FSin(x) == Series(x, x, 1, 2, -1)


(***************************************************************************)
(* SpringConfig, SpringParams, SpringTimeStep, Spring (src/lib.rs)         *)
(***************************************************************************)

\* SpringConfig::new with the clamp of damping_ratio left out
SpringConfig_new_RatioUnclamped(angular_freq, damping_ratio) ==
    [angular_freq  |-> FMax(angular_freq, Zero),
     damping_ratio |-> damping_ratio]

\* SpringConfig::new: both arguments constrained to non-negative values.
SpringConfig_new(angular_freq, damping_ratio) ==
    [angular_freq  |-> FMax(angular_freq, Zero),
     damping_ratio |-> FMax(damping_ratio, Zero)]

\* SpringParams::from with the damping boundaries compared inclusively
SpringParams_from_Inclusive(c) ==
    IF c.angular_freq < Epsilon THEN [tag |-> "Static"]
    ELSE IF c.damping_ratio >= One + Epsilon THEN
        LET za == FMul(FNeg(c.angular_freq), c.damping_ratio)
            zb == FMul(c.angular_freq,
                       FSqrt(FSub(FMul(c.damping_ratio, c.damping_ratio), One)))
        IN  [tag |-> "OverDamped", zb |-> zb, z1 |-> FSub(za, zb), z2 |-> FAdd(za, zb)]
    ELSE IF c.damping_ratio <= One - Epsilon THEN
        LET oz == FMul(c.angular_freq, c.damping_ratio)
            a  == FMul(c.angular_freq,
                       FSqrt(FSub(One, FMul(c.damping_ratio, c.damping_ratio))))
        IN  [tag |-> "UnderDamped", oz |-> oz, a |-> a]
    ELSE [tag |-> "CriticallyDamped", angular_freq |-> c.angular_freq]

\* impl From<SpringConfig<F>> for SpringParams<F>
SpringParams_from(c) ==
    IF c.angular_freq < Epsilon THEN [tag |-> "Static"]
    ELSE IF c.damping_ratio > One + Epsilon THEN
        LET za == FMul(FNeg(c.angular_freq), c.damping_ratio)
            zb == FMul(c.angular_freq,
                       FSqrt(FSub(FMul(c.damping_ratio, c.damping_ratio), One)))
        IN  [tag |-> "OverDamped", zb |-> zb, z1 |-> FSub(za, zb), z2 |-> FAdd(za, zb)]
    ELSE IF c.damping_ratio < One - Epsilon THEN
        LET oz == FMul(c.angular_freq, c.damping_ratio)
            a  == FMul(c.angular_freq,
                       FSqrt(FSub(One, FMul(c.damping_ratio, c.damping_ratio))))
        IN  [tag |-> "UnderDamped", oz |-> oz, a |-> a]
    ELSE [tag |-> "CriticallyDamped", angular_freq |-> c.angular_freq]

\* the default time step with vv zero instead of one
SpringTimeStep_default_ZeroVV == [pp |-> One, pv |-> Zero, vp |-> Zero, vv |-> Zero]

\* impl Default for SpringTimeStep
SpringTimeStep_default == [pp |-> One, pv |-> Zero, vp |-> Zero, vv |-> One]

\* SpringTimeStep::new, OverDamped arm
OverDampedStep(zb, z1, z2, delta) ==
    LET e1       == FExp(FMul(z1, delta))
        e2       == FExp(FMul(z2, delta))
        inv_2zb  == FDiv(One, FMul(FAdd(One, One), zb))
        e1_2zb   == FMul(e1, inv_2zb)
        e2_2zb   == FMul(e2, inv_2zb)
        z1e1_2zb == FMul(z1, e1_2zb)
        z2e2_2zb == FMul(z2, e2_2zb)
    IN  [pp |-> FAdd(FSub(FMul(e1_2zb, z2), z2e2_2zb), e2),
         pv |-> FAdd(FNeg(e1_2zb), e2_2zb),
         vp |-> FMul(FAdd(FSub(z1e1_2zb, z2e2_2zb), e2), z2),
         vv |-> FAdd(FNeg(z1e1_2zb), z2e2_2zb)]

\* SpringTimeStep::new, UnderDamped arm
UnderDampedStep(oz, a, delta) ==
    LET exp           == FExp(FMul(FNeg(oz), delta))
        cos           == FCos(FMul(a, delta))
        sin           == FSin(FMul(a, delta))
        inv_alpha     == FDiv(One, a)
        exp_sin       == FMul(exp, sin)
        exp_cos       == FMul(exp, cos)
        exp_ozs_alpha == FMul(FMul(FMul(exp, oz), sin), inv_alpha)
    IN  [pp |-> FAdd(exp_cos, exp_ozs_alpha),
         pv |-> FMul(exp_sin, inv_alpha),
         vp |-> FSub(FMul(FNeg(exp_sin), a), FMul(oz, exp_ozs_alpha)),
         vv |-> FSub(exp_cos, exp_ozs_alpha)]

\* SpringTimeStep::new, CriticallyDamped arm
CriticallyDampedStep(angular_freq, delta) ==
    LET exp           == FExp(FMul(FNeg(angular_freq), delta))
        time_exp      == FMul(delta, exp)
        time_exp_freq == FMul(time_exp, angular_freq)
    IN  [pp |-> FMul(time_exp_freq, exp),
         pv |-> time_exp,
         vp |-> FMul(FNeg(angular_freq), time_exp_freq),
         vv |-> FMul(FNeg(time_exp_freq), exp)]

\* SpringTimeStep::new
SpringTimeStep_new(state, delta) ==
    CASE state.tag = "Static" -> SpringTimeStep_default
      [] state.tag = "OverDamped" -> OverDampedStep(state.zb, state.z1, state.z2, delta)
      [] state.tag = "UnderDamped" -> UnderDampedStep(state.oz, state.a, delta)
      [] state.tag = "CriticallyDamped" -> CriticallyDampedStep(state.angular_freq, delta)

\* impl Default for Spring
Spring_default == [position |-> Zero, velocity |-> Zero, equilibrium |-> Zero]

\* Spring::from_equilibrium
Spring_from_equilibrium(equilibrium) ==
    [position |-> Zero, velocity |-> Zero, equilibrium |-> equilibrium]

\* Spring::update with the equilibrium not added back to the new position
Spring_update_NoEquilibrium(self, time_step) ==
    LET op == FSub(self.position, self.equilibrium)
        ov == self.velocity
    IN  [position    |-> FAdd(FMul(op, time_step.pp), FMul(ov, time_step.pv)),
         velocity    |-> FAdd(FMul(op, time_step.vp), FMul(ov, time_step.vv)),
         equilibrium |-> self.equilibrium]

\* Spring::update with the velocity computed from the freshly written position
Spring_update_Sequential(self, time_step) ==
    LET op == FSub(self.position, self.equilibrium)
        ov == self.velocity
        np == FAdd(FAdd(FMul(op, time_step.pp), FMul(ov, time_step.pv)),
                   self.equilibrium)
    IN  [position    |-> np,
         velocity    |-> FAdd(FMul(FSub(np, self.equilibrium), time_step.vp),
                              FMul(ov, time_step.vv)),
         equilibrium |-> self.equilibrium]

\* Spring::update
Spring_update(self, time_step) ==
    LET op == FSub(self.position, self.equilibrium)
        ov == self.velocity
    IN  [position    |-> FAdd(FAdd(FMul(op, time_step.pp), FMul(ov, time_step.pv)),
                              self.equilibrium),
         velocity    |-> FAdd(FMul(op, time_step.vp), FMul(ov, time_step.vv)),
         equilibrium |-> self.equilibrium]

\* Spring::update_single applying the default time step instead of a derived one
Spring_update_single_Default(self, state, delta) ==
    Spring_update(self, SpringTimeStep_default)

\* Spring::update_single
Spring_update_single(self, state, delta) ==
    Spring_update(self, SpringTimeStep_new(state, delta))

\* SpringCollection::from_equilibriums
SpringCollection_from_equilibriums(p, equilibriums) ==
    [params  |-> p,
     springs |-> [i \in DOMAIN equilibriums |-> Spring_from_equilibrium(equilibriums[i])]]

\* SpringCollection::update_with iterating over copies of the springs
SpringCollection_update_with_Copies(self, ts) ==
    LET copies == [i \in DOMAIN self.springs |-> Spring_update(self.springs[i], ts)]
    IN  [self EXCEPT !.springs = [i \in DOMAIN copies |-> self.springs[i]]]

\* SpringCollection::update_with
SpringCollection_update_with(self, ts) ==
    [self EXCEPT !.springs = [i \in DOMAIN self.springs |-> Spring_update(self.springs[i], ts)]]

\* SpringCollection::update
SpringCollection_update(self, d) ==
    SpringCollection_update_with(self, SpringTimeStep_new(self.params, d))

\* the set_* method of impl_collection_props! with the index clamped to the last slot
set_prop_Clamped(self, prop, index, value) ==
    LET n == Cardinality(DOMAIN self.springs)
        i == IF index >= n THEN n - 1 ELSE index
    IN  [panic |-> FALSE, self |-> [self EXCEPT !.springs[i][prop] = value]]

\* the set_* method of impl_collection_props!: self.springs[index].prop = value,
\* where indexing past the end of the array panics before anything is written
set_prop(self, prop, index, value) ==
    IF index >= Cardinality(DOMAIN self.springs)
    THEN [panic |-> TRUE, self |-> self]
    ELSE [panic |-> FALSE, self |-> [self EXCEPT !.springs[index][prop] = value]]

set_position(self, index, position) == set_prop(self, "position", index, position)
set_velocity(self, index, velocity) == set_prop(self, "velocity", index, velocity)
set_equilibrium(self, index, equilibrium) == set_prop(self, "equilibrium", index, equilibrium)

(***************************************************************************)
(* State                                                                   *)
(***************************************************************************)
VARIABLES
    pc,         \* position of the calling program
    args,       \* the raw arguments handed to SpringConfig::new
    config,     \* the SpringConfig
    params,     \* the SpringParams derived from config
    delta,      \* the delta time of the last derived time step
    time_step,  \* the cached SpringTimeStep
    spring,     \* the Spring updated with the cached time step
    auto,       \* the Spring updated with update_single
    prev,       \* spring as it was before the last update
    start,      \* spring as it was constructed
    target,     \* the equilibrium last set by the caller
    iter,       \* number of updates done
    last,       \* the last operation
    collection, \* the SpringCollection
    solo,       \* one stand-alone Spring per slot of the collection
    call,       \* the last call made on the collection
    sets,       \* number of set_* calls made on the collection
    panicked    \* whether a call has panicked

vars == <<pc, args, config, params, delta, time_step, spring, auto, prev, start,
          target, iter, last, collection, solo, call, sets, panicked>>
collvars == <<collection, solo, call, sets, panicked>>

NoConfig == [angular_freq |-> Zero, damping_ratio |-> Zero]
NoParams == [tag |-> "None"]
NoCall == [op |-> "none", index |-> 0, value |-> Zero]
NoCollection ==
    /\ collection = [params |-> NoParams, springs |-> <<>>]
    /\ solo = <<>>
    /\ call = NoCall
    /\ sets = 0
    /\ panicked = FALSE

(***************************************************************************)
(* SpecConfig: SpringConfig::new followed by SpringParams::from, over raw  *)
(* arguments on and around every boundary of the classification.           *)
(***************************************************************************)
RawFreqs == {-5 * One, -Epsilon, -1, 0, 1, Epsilon, Epsilon + 1, One, 5 * One}
RawRatios == {-One, -1, 0, One \div 2, One - Epsilon - 1, One - Epsilon, One - 1,
              One, One + 1, One + Epsilon, One + Epsilon + 1, (5 * One) \div 4, 5 * One}

InitConfig ==
    /\ pc = "new"
    /\ args \in [angular_freq : RawFreqs, damping_ratio : RawRatios]
    /\ config = NoConfig
    /\ params = NoParams
    /\ delta = Zero
    /\ time_step = SpringTimeStep_default
    /\ spring = Spring_default
    /\ auto = Spring_default
    /\ prev = Spring_default
    /\ start = Spring_default
    /\ target = Zero
    /\ iter = 0
    /\ last = "init"
    /\ NoCollection

NewConfig ==
    /\ pc = "new"
    /\ config' = SpringConfig_new(args.angular_freq, args.damping_ratio)
    /\ pc' = "from"
    /\ last' = "new"
    /\ UNCHANGED <<args, params, delta, time_step, spring, auto, prev, start, target, iter>>
    /\ UNCHANGED collvars

FromConfig ==
    /\ pc = "from"
    /\ params' = SpringParams_from(config)
    /\ pc' = "done"
    /\ last' = "from"
    /\ UNCHANGED <<args, config, delta, time_step, spring, auto, prev, start, target, iter>>
    /\ UNCHANGED collvars

NextConfig == NewConfig \/ FromConfig

SpecConfig == InitConfig /\ [][NextConfig]_vars

(***************************************************************************)
(* SpecStep: one spring driven as in examples/1d.rs, with the time step    *)
(* derived for a delta of either sign or zero, cached, and applied; a      *)
(* second spring takes the same steps through update_single.               *)
(***************************************************************************)
MaxSteps == 2

StepConfigs == {<<5 * One, One \div 2>>, <<5 * One, One>>, <<5 * One, (5 * One) \div 4>>,
                <<2 * One, 0>>, <<0, One \div 2>>, <<1, 5 * One>>}
Deltas == {-(One \div 10), 0, One \div 10, One \div 4}
Equilibriums == {One, -2 * One}
StartSprings ==
    {Spring_from_equilibrium(e) : e \in Equilibriums}
        \cup {[position |-> One \div 2, velocity |-> -3 * One, equilibrium |-> Zero]}

InitStep ==
    /\ pc = "run"
    /\ args \in {[angular_freq |-> c[1], damping_ratio |-> c[2]] : c \in StepConfigs}
    /\ config = SpringConfig_new(args.angular_freq, args.damping_ratio)
    /\ params = SpringParams_from(config)
    /\ delta \in Deltas
    /\ time_step = SpringTimeStep_new(params, delta)
    /\ spring \in StartSprings
    /\ auto = spring
    /\ prev = spring
    /\ start = spring
    /\ target = spring.equilibrium
    /\ iter = 0
    /\ last = "init"
    /\ NoCollection

\* let time_step = SpringTimeStep::new(params, d)
Derive(d) ==
    /\ pc = "run"
    /\ delta' = d
    /\ time_step' = SpringTimeStep_new(params, d)
    /\ last' = "derive"
    /\ UNCHANGED <<pc, args, config, params, spring, auto, prev, start, target, iter>>
    /\ UNCHANGED collvars

\* spring.update(time_step) and, on the second spring, update_single(params, delta)
Update ==
    /\ pc = "run"
    /\ iter < MaxSteps
    /\ spring' = Spring_update(spring, time_step)
    /\ auto' = Spring_update_single(auto, params, delta)
    /\ prev' = spring
    /\ iter' = iter + 1
    /\ last' = "update"
    /\ UNCHANGED <<pc, args, config, params, delta, time_step, start, target>>
    /\ UNCHANGED collvars

\* spring.equilibrium = e (a public field)
Retarget(e) ==
    /\ pc = "run"
    /\ spring' = [spring EXCEPT !.equilibrium = e]
    /\ auto' = [auto EXCEPT !.equilibrium = e]
    /\ target' = e
    /\ last' = "retarget"
    /\ UNCHANGED <<pc, args, config, params, delta, time_step, prev, start, iter>>
    /\ UNCHANGED collvars

NextStep ==
    \/ \E d \in Deltas : Derive(d)
    \/ Update
    \/ \E e \in Equilibriums : Retarget(e)

SpecStep == InitStep /\ [][NextStep]_vars

(***************************************************************************)
(* Properties of SpecConfig                                                *)
(***************************************************************************)

\* C8: for all arguments, negative ones included, SpringConfig::new stores
\* max(argument, 0) in each field: the stored values are never negative, a
\* non-negative argument is stored unchanged, and construction always succeeds.
C8_ConfigClamped ==
    /\ pc = "new" => ENABLED NewConfig
    /\ pc # "new" =>
        /\ config.angular_freq = (IF args.angular_freq < 0 THEN 0 ELSE args.angular_freq)
        /\ config.damping_ratio = (IF args.damping_ratio < 0 THEN 0 ELSE args.damping_ratio)
        /\ config.angular_freq >= 0
        /\ config.damping_ratio >= 0

C8_Witness ==
    /\ pc = "done"
    /\ args.angular_freq = 5 * One
    /\ args.damping_ratio < 0
    /\ config = [angular_freq |-> 5 * One, damping_ratio |-> 0]

\* C2: SpringParams::from yields exactly one variant for every config: Static
\* when angular_freq < epsilon whatever the damping ratio; otherwise OverDamped
\* when damping_ratio > 1 + epsilon, UnderDamped when damping_ratio < 1 - epsilon,
\* and CriticallyDamped in every remaining case, both boundaries included.
C2_Classification ==
    pc = "done" =>
        LET af == config.angular_freq
            dr == config.damping_ratio
        IN  /\ params.tag \in {"Static", "OverDamped", "CriticallyDamped", "UnderDamped"}
            /\ params.tag = "Static" <=> af < Epsilon
            /\ params.tag = "OverDamped" <=> (af >= Epsilon /\ dr > One + Epsilon)
            /\ params.tag = "UnderDamped" <=> (af >= Epsilon /\ dr < One - Epsilon)
            /\ params.tag = "CriticallyDamped" <=>
                   (af >= Epsilon /\ dr >= One - Epsilon /\ dr <= One + Epsilon)

C2_Witness ==
    /\ pc = "done"
    /\ config.angular_freq = Epsilon
    /\ config.damping_ratio = One + Epsilon
    /\ params.tag = "CriticallyDamped"

(***************************************************************************)
(* Properties of SpecStep                                                  *)
(***************************************************************************)
Moving == {"OverDamped", "CriticallyDamped", "UnderDamped"}

\* the rounding allowance of a comparison: a ten-thousandth
Tol == One \div 10000
FAbs(a) == IF a < 0 THEN 0 - a ELSE a
Near(a, b) == FAbs(a - b) <= Tol

\* C1: in every non-static regime the time step derived with delta = 0 has
\* pp = 1, pv = 0 and vp = 0 (up to the rounding of the arithmetic), and
\* Spring::update with it leaves position and velocity as they were.
C1_ZeroDeltaIdentity ==
    (params.tag \in Moving /\ delta = Zero) =>
        /\ Near(time_step.pp, One)
        /\ Near(time_step.pv, Zero)
        /\ Near(time_step.vp, Zero)
        /\ last = "update" =>
            /\ Near(spring.position, prev.position)
            /\ Near(spring.velocity, prev.velocity)

\* C3: with Static parameters the coefficients are {pp:1, pv:0, vp:0, vv:1} for
\* every delta, and after any sequence of update / update_single calls position
\* and velocity are those the spring started with.
C3_StaticNeverMoves ==
    params.tag = "Static" =>
        /\ time_step = [pp |-> One, pv |-> Zero, vp |-> Zero, vv |-> One]
        /\ spring.position = start.position
        /\ spring.velocity = start.velocity
        /\ auto.position = start.position
        /\ auto.velocity = start.velocity

C3_Witness ==
    /\ params.tag = "Static"
    /\ last = "update"
    /\ iter >= 2
    /\ delta < Zero
    /\ start.velocity # Zero
    /\ start.position # start.equilibrium
    /\ spring.velocity = start.velocity

\* C4: update_single(params, delta) leaves the spring exactly where deriving
\* SpringTimeStep::new(params, delta) once and calling update with it does, step
\* by step over any sequence of calls.
C4_UpdateSingleAgrees == auto = spring

C4_Witness ==
    /\ params.tag = "UnderDamped"
    /\ last = "update"
    /\ iter >= 2
    /\ delta # Zero
    /\ spring.position # prev.position
    /\ auto = spring

C10_UpdateStep ==
    iter' = iter + 1 =>
        LET x == spring.position - spring.equilibrium
            v == spring.velocity
        IN  /\ spring'.position =
                   FMul(x, time_step.pp) + FMul(v, time_step.pv) + spring.equilibrium
            /\ spring'.velocity = FMul(x, time_step.vp) + FMul(v, time_step.vv)
            /\ spring'.equilibrium = spring.equilibrium

\* C10: update computes, from the offset x = position - equilibrium and the
\* velocity v it finds, position' = x*pp + v*pv + equilibrium and
\* velocity' = x*vp + v*vv (from the old position, not the new one) and leaves
\* equilibrium alone, so the equilibrium is always the one the caller last set.
C10_UpdateFormula == [][C10_UpdateStep]_vars /\ [](spring.equilibrium = target)

C10_Witness ==
    /\ last = "update"
    /\ iter >= 2
    /\ prev.velocity # Zero
    /\ prev.position # prev.equilibrium
    /\ time_step.vp # Zero
    /\ spring.velocity # prev.velocity
    /\ target # start.equilibrium
    /\ spring.equilibrium = target

(***************************************************************************)
(* SpecIter: the first loop of examples/1d.rs.  A spring created at rest   *)
(* with from_equilibrium is updated again and again with the time step of  *)
(* one fixed positive delta.  iter counts the updates up to ITERATIONS and *)
(* stays there while the updates go on; the loop never skips an update,    *)
(* which is the weak fairness of Iterate.                                  *)
(***************************************************************************)
ITERATIONS == 32

IterConfigs == {<<5 * One, One \div 2>>, <<5 * One, One>>, <<5 * One, (5 * One) \div 4>>,
                <<5 * One, 5 * One>>, <<2 * One, (3 * One) \div 5>>, <<0, One \div 2>>}
IterDeltas == {One \div 10, One \div 20}

InitIter ==
    /\ pc = "loop"
    /\ args \in {[angular_freq |-> c[1], damping_ratio |-> c[2]] : c \in IterConfigs}
    /\ config = SpringConfig_new(args.angular_freq, args.damping_ratio)
    /\ params = SpringParams_from(config)
    /\ delta \in IterDeltas
    /\ time_step = SpringTimeStep_new(params, delta)
    /\ spring \in {Spring_from_equilibrium(e) : e \in Equilibriums}
    /\ auto = spring
    /\ prev = spring
    /\ start = spring
    /\ target = spring.equilibrium
    /\ iter = 0
    /\ last = "init"
    /\ NoCollection

\* spring.update(time_step) in the loop body
Iterate ==
    /\ pc = "loop"
    /\ spring' = Spring_update(spring, time_step)
    /\ prev' = spring
    /\ iter' = IF iter < ITERATIONS THEN iter + 1 ELSE iter
    /\ last' = "update"
    /\ UNCHANGED <<pc, args, config, params, delta, time_step, auto, start, target>>
    /\ UNCHANGED collvars

NextIter == Iterate

SpecIter == InitIter /\ [][NextIter]_vars /\ WF_vars(Iterate)

\* C6: in the CriticallyDamped regime a spring that starts at rest away from its
\* equilibrium decays without oscillation: under repeated updates with the time
\* step of a fixed positive delta the offset position - equilibrium never takes
\* the sign opposite to the one it started with (beyond the rounding allowance).
C6_NoSignChange ==
    params.tag = "CriticallyDamped" =>
        LET x0 == start.position - start.equilibrium
            x  == spring.position - spring.equilibrium
        IN  /\ x0 < 0 => x <= Tol
            /\ x0 > 0 => x >= -Tol

Settled ==
    /\ Near(spring.position, spring.equilibrium)
    /\ Near(spring.velocity, Zero)

Scenario1d ==
    /\ config = [angular_freq |-> 5 * One, damping_ratio |-> One \div 2]
    /\ delta = One \div 10
    /\ start = Spring_from_equilibrium(One)

ScenarioHolds ==
    (Scenario1d /\ iter = ITERATIONS) => FAbs(spring.position - One) < One \div 1000

N == 2
MaxUpdates == 2
MaxSets == 2

Slots == 0 .. (N - 1)
\* the indices tried: every slot, and two past the end
Indices == 0 .. (N + 1)
SlotEquilibriums == [i \in Slots |-> (i + 1) * One]
CollConfigs == {<<5 * One, One \div 2>>, <<5 * One, (5 * One) \div 4>>}
CollDeltas == {One \div 10, One \div 4}
SetValues == {(3 * One) \div 2}
Setters == {"set_position", "set_velocity", "set_equilibrium"}
Field(op) ==
    CASE op = "set_position" -> "position"
      [] op = "set_velocity" -> "velocity"
      [] op = "set_equilibrium" -> "equilibrium"

InitColl ==
    /\ pc = "coll"
    /\ args \in {[angular_freq |-> c[1], damping_ratio |-> c[2]] : c \in CollConfigs}
    /\ config = SpringConfig_new(args.angular_freq, args.damping_ratio)
    /\ params = SpringParams_from(config)
    /\ delta = Zero
    /\ time_step = SpringTimeStep_default
    /\ spring = Spring_default
    /\ auto = Spring_default
    /\ prev = Spring_default
    /\ start = Spring_default
    /\ target = Zero
    /\ iter = 0
    /\ last = "init"
    /\ collection = SpringCollection_from_equilibriums(SpringParams_from(config),
                                                       SlotEquilibriums)
    /\ solo = [i \in Slots |-> Spring_from_equilibrium(SlotEquilibriums[i])]
    /\ call = NoCall
    /\ sets = 0
    /\ panicked = FALSE

othervars == <<pc, args, config, params, spring, auto, prev, start, target>>

\* collection.update(d); beside it x.update(time_step), y.update(time_step), ...
CollUpdate(d) ==
    /\ pc = "coll"
    /\ ~panicked
    /\ iter < MaxUpdates
    /\ delta' = d
    /\ time_step' = SpringTimeStep_new(params, d)
    /\ collection' = SpringCollection_update(collection, d)
    /\ solo' = [i \in Slots |-> Spring_update(solo[i], time_step')]
    /\ call' = [op |-> "update", index |-> 0, value |-> d]
    /\ iter' = iter + 1
    /\ last' = "update"
    /\ UNCHANGED <<sets, panicked>>
    /\ UNCHANGED othervars

Set(op, r, index, value) ==
    /\ pc = "coll"
    /\ ~panicked
    /\ sets < MaxSets
    /\ collection' = r.self
    /\ panicked' = r.panic
    /\ solo' = IF r.panic THEN solo ELSE [solo EXCEPT ![index][Field(op)] = value]
    /\ call' = [op |-> op, index |-> index, value |-> value]
    /\ sets' = sets + 1
    /\ last' = "set"
    /\ UNCHANGED <<delta, time_step, iter>>
    /\ UNCHANGED othervars

\* collection.set_position(index, value)
SetPosition(index, value) ==
    Set("set_position", set_position(collection, index, value), index, value)

\* collection.set_velocity(index, value)
SetVelocity(index, value) ==
    Set("set_velocity", set_velocity(collection, index, value), index, value)

\* collection.set_equilibrium(index, value)
SetEquilibrium(index, value) ==
    Set("set_equilibrium", set_equilibrium(collection, index, value), index, value)

NextColl ==
    \/ \E d \in CollDeltas : CollUpdate(d)
    \/ \E index \in Indices, value \in SetValues : SetPosition(index, value)
    \/ \E index \in Indices, value \in SetValues : SetVelocity(index, value)
    \/ \E index \in Indices, value \in SetValues : SetEquilibrium(index, value)

SpecColl == InitColl /\ [][NextColl]_vars

\* C5: SpringCollection::update(delta) leaves every slot as a stand-alone Spring
\* with that slot's own prior position, velocity and equilibrium is left by
\* update with the one time step SpringTimeStep::new(collection params, delta).
C5_CollectionAgrees ==
    /\ DOMAIN collection.springs = Slots
    /\ \A i \in Slots : collection.springs[i] = solo[i]

C5_Witness ==
    /\ call.op = "update"
    /\ iter >= 2
    /\ sets >= 1
    /\ \A i \in Slots : collection.springs[i].position # Zero
    /\ \E i \in Slots : collection.springs[i].equilibrium # SlotEquilibriums[i]
    /\ collection.springs[0].position # collection.springs[1].position
    /\ \A i \in Slots : collection.springs[i] = solo[i]

C9_SetStep ==
    sets' = sets + 1 =>
        IF call'.index >= N
        THEN /\ panicked'
             /\ collection' = collection
        ELSE /\ ~panicked'
             /\ \A j \in Slots : \A g \in {"position", "velocity", "equilibrium"} :
                    collection'.springs[j][g] =
                        IF j = call'.index /\ g = Field(call'.op)
                        THEN call'.value
                        ELSE collection.springs[j][g]

\* C9: on a collection of N slots a set_position / set_velocity /
\* set_equilibrium call with index >= N fails and leaves every slot's position,
\* velocity and equilibrium as they were; with index < N it writes the named
\* property of that one slot and nothing else.
C9_SetByIndex == [][C9_SetStep]_vars

C9_Witness ==
    /\ panicked
    /\ call.op \in Setters
    /\ call.index >= N
    /\ sets >= 2
    /\ iter >= 1
    /\ \E i \in Slots : collection.springs[i].velocity = (3 * One) \div 2
    /\ \A i \in Slots : collection.springs[i] = solo[i]
====
